---- MODULE Spec2Model ----
(***************************************************************************)
(* The etimerfd port driver (c_src/etimerfd.c): one port instance, the     *)
(* kernel timer descriptors it obtains, the emulator's read-select set and *)
(* the messages the driver sends to the port owner.                        *)
(***************************************************************************)
EXTENDS Integers, Sequences, FiniteSets, TLC

VARIABLES
    fd,           \* etimerfd.fd
    ack_pending,  \* etimerfd.ack_pending
    alive,        \* the port data exists (start has run, stop has not)
    selected,     \* descriptors the emulator polls for this port (driver_select)
    kfd,          \* the kernel's timerfd objects, by descriptor number
    out,          \* how many {timeout, Count} terms driver_output has sent
    last,         \* the most recent step: callback, its return value, reply and host calls
    expired       \* number of kernel timer expirations so far (all descriptors)

vars == <<fd, ack_pending, alive, selected, kfd, out, last, expired>>

----------------------------------------------------------------------------
(* Bounds of the model *)

\* descriptors the process may still open before timerfd_create fails (EMFILE)
MaxFds == 2
\* timeout messages driver_output may have sent before the model stops delivering events
MaxOut == 2
\* weight of kernel expirations before the model stops the timers
MaxExp == 2

----------------------------------------------------------------------------
(* Program constants *)

CREATE == 0
SETTIME == 1
GETTIME == 2
ACK == 3

\* data->fd = -1 in start; also timerfd_create's failure value
NoFd == -1
\* the first descriptor number timerfd_create can return (0, 1, 2 are the
\* emulator's standard streams)
FirstFd == 3
\* INT_MAX of the C int that erl_format's ~i reads
IntMax == 2147483647
\* tv_nsec must be below one second or timerfd_settime fails with EINVAL
NsecPerSec == 1000000000

Fds == FirstFd .. (FirstFd + MaxFds - 1)

----------------------------------------------------------------------------
(* 64-bit counters.  A counter c is <<hi, lo>> and stands for                *)
(* hi * 2^31 + lo with 0 <= lo < 2^31.                                       *)

U64(n) == <<0, n>>

AddU64(a, b) ==
    IF a[2] > IntMax - b[2]
    THEN <<a[1] + b[1] + 1, (a[2] - (IntMax - b[2])) - 1>>
    ELSE <<a[1] + b[1], a[2] + b[2]>>

IsZeroU64(a) == a[1] = 0 /\ a[2] = 0

LessU64(a, b) == a[1] < b[1] \/ (a[1] = b[1] /\ a[2] < b[2])

\* a - b for a >= b
SubU64(a, b) ==
    IF a[2] >= b[2] THEN <<a[1] - b[1], a[2] - b[2]>>
    ELSE <<(a[1] - b[1]) - 1, ((a[2] - b[2]) + IntMax) + 1>>

\* erl_format's ~i directive takes its argument with va_arg(ap, int): of a
\* 64-bit argument the low 32 bits are read, as a signed int.
fmt_i(c) ==
    IF c[1] % 2 = 1 THEN (c[2] - IntMax) - 1 ELSE c[2]

----------------------------------------------------------------------------
(* Times: <<tv_sec, tv_nsec>>; tv_sec is a 64-bit time_t, kept as a counter, *)
(* tv_nsec a long below 2^31 in every time the model uses                    *)

ZeroT == <<U64(0), 0>>
OneT == <<U64(1), 0>>
\* one nanosecond: the shortest period, and what is left of a timer set to
\* an absolute time that has passed
NanoT == <<U64(0), 1>>

----------------------------------------------------------------------------
(* The kernel's timerfd objects *)

\* a timer is armed exactly when its value, the time left, is not zero
ClosedTimer ==
    [open |-> FALSE, interval |-> ZeroT, value |-> ZeroT, ticks |-> U64(0)]

\* a timer just created, on either clock: disarmed
NewTimer(clockid) ==
    [open |-> TRUE, interval |-> ZeroT, value |-> ZeroT, ticks |-> U64(0)]

OpenFds(k) == {f \in Fds : k[f].open}

\* the descriptor number a successful timerfd_create returns: the lowest free one
LowestFree(k) == CHOOSE f \in Fds \ OpenFds(k) : \A g \in Fds \ OpenFds(k) : f <= g

\* timerfd_create(clockid, flags) when the kernel grants it (succeed) or not
timerfd_create(k, clockid, succeed) ==
    IF succeed /\ Fds \ OpenFds(k) # {}
    THEN [ret |-> LowestFree(k),
          k |-> [k EXCEPT ![LowestFree(k)] = NewTimer(clockid)]]
    ELSE [ret |-> NoFd, k |-> k]

ValidTime(t) == t[2] >= 0 /\ t[2] < NsecPerSec

\* timerfd_settime(fd, flags, new_value, old_value)
timerfd_settime(k, f, abstime, new) ==
    IF f \notin OpenFds(k) \/ ~ValidTime(new.interval) \/ ~ValidTime(new.value)
    THEN [ret |-> -1, k |-> k, old |-> [interval |-> ZeroT, value |-> ZeroT]]
    ELSE [ret |-> 0,
          old |-> [interval |-> k[f].interval, value |-> k[f].value],
          k |-> [k EXCEPT ![f] =
                    [@ EXCEPT !.interval = new.interval,
                              \* an absolute time of a second or less on either
                              \* clock has passed: the timer is due at once
                              !.value = IF abstime /\ new.value # ZeroT
                                        THEN NanoT ELSE new.value,
                              !.ticks = U64(0)]]]

\* timerfd_gettime(fd, curr_value)
timerfd_gettime(k, f) ==
    IF f \notin OpenFds(k)
    THEN [ret |-> -1, cur |-> [interval |-> ZeroT, value |-> ZeroT]]
    ELSE [ret |-> 0, cur |-> [interval |-> k[f].interval, value |-> k[f].value]]

\* read(fd, &count, 8) on a non-blocking timerfd
read(k, f) ==
    IF f \in OpenFds(k) /\ ~IsZeroU64(k[f].ticks)
    THEN [ret |-> 8, count |-> k[f].ticks, k |-> [k EXCEPT ![f].ticks = U64(0)]]
    ELSE [ret |-> -1, count |-> U64(0), k |-> k]

\* close(fd)
close(k, f) ==
    IF f \in OpenFds(k) THEN [k EXCEPT ![f] = ClosedTimer] ELSE k

----------------------------------------------------------------------------
(* Terms of the control protocol *)

NoSpec == << <<0, 0>>, <<0, 0>> >>

\* the reply buffer holds the version byte only: control returns no term
NoReply == [kind |-> "none", msg |-> "", spec |-> NoSpec]
\* the atom ok
OkReply == [kind |-> "ok", msg |-> "", spec |-> NoSpec]
\* {error, Str}
encode_error(str) == [kind |-> "error", msg |-> str, spec |-> NoSpec]
\* {ok, {{A,B},{C,D}}} built by erl_format with four ~i directives
OkSpecReply(ts) ==
    [kind |-> "ok_spec", msg |-> "",
     spec |-> << <<fmt_i(ts.interval[1]), fmt_i(U64(ts.interval[2]))>>,
                 <<fmt_i(ts.value[1]), fmt_i(U64(ts.value[2]))>> >>]

\* {etimerfd, {timeout, Count}}: Count goes through ~i
TimeoutMsg(count) == [tag |-> "timeout", count |-> fmt_i(count), msg |-> ""]
\* {etimerfd, {error, "incorrect read size"}}
ErrorMsg(str) == [tag |-> "error", count |-> 0, msg |-> str]

\* Create payloads: a term that is an atom or is not one
CreatePayloads ==
    { [type |-> "atom", val |-> "clock_monotonic"],
      [type |-> "atom", val |-> "clock_realtime"],
      [type |-> "atom", val |-> "notaclockid"],
      [type |-> "string", val |-> "notaclockid"] }

\* SetTime payloads: {{{A,B},{C,D}},E}, a term of another shape, or bytes that
\* are no term at all
SetTimeSpecs ==
    { [interval |-> ZeroT, value |-> ZeroT],            \* disarm
      [interval |-> ZeroT, value |-> OneT],             \* one-shot
      [interval |-> NanoT, value |-> NanoT],            \* periodic
      [interval |-> ZeroT, value |-> <<U64(0), NsecPerSec>>] \* tv_nsec out of range
    }

SetTimePayloads ==
    { [type |-> "match", spec |-> s, abs |-> "false"] : s \in SetTimeSpecs }
    \cup { [type |-> "mismatch", spec |-> [interval |-> ZeroT, value |-> ZeroT],
            abs |-> "false"],
           [type |-> "undecodable", spec |-> [interval |-> ZeroT, value |-> ZeroT],
            abs |-> "false"] }

NoPayload == [type |-> "none"]

\* the event ready_input is called with
Event(f) == [type |-> "event", fd |-> f]

----------------------------------------------------------------------------
(* The driver.  A driver state st is [fd, ack_pending, selected, kfd]; every  *)
(* function returns the state it leaves, whether control's return value is   *)
(* -1 (fatal), the reply term and the emulator calls it made.                *)

Result(st, isFatal, reply, calls) ==
    [st |-> st, fatal |-> isFatal, reply |-> reply, calls |-> calls]

SelectCall(f, on) == [fn |-> "driver_select", fd |-> f, on |-> on]
CloseCall(f) == [fn |-> "close", fd |-> f, on |-> 0]

\* driver_select(port, event, mode, on): the emulator refuses a negative
\* descriptor and changes nothing
driver_select(st, f, on) ==
    IF f < 0 THEN st
    ELSE [st EXCEPT !.selected = IF on = 1 THEN @ \cup {f} ELSE @ \ {f}]

\* ei_x_decode_atom: 0 when the next term is an atom
ei_x_decode_atom(payload) == IF payload.type = "atom" THEN 0 ELSE -1

\* create_timer that stores the descriptor only when timerfd_create succeeds
create_timer_keeps_fd(st, payload, succeed) ==
    IF ei_x_decode_atom(payload) = 0
    THEN LET clockid == IF payload.val = "clock_monotonic" THEN "CLOCK_MONOTONIC"
                        ELSE IF payload.val = "clock_realtime" THEN "CLOCK_REALTIME"
                        ELSE "unset"
         IN  IF clockid # "unset"
             THEN LET c == timerfd_create(st.kfd, clockid, succeed)
                      st1 == [st EXCEPT !.fd = c.ret, !.kfd = c.k]
                  IN  IF c.ret < 0
                      THEN Result(st, FALSE, encode_error("timerfd_create failed"), <<>>)
                      ELSE Result(driver_select(st1, st1.fd, 1), FALSE, OkReply,
                                  <<SelectCall(st1.fd, 1)>>)
             ELSE Result(st, TRUE, NoReply, <<>>)
    ELSE Result(st, FALSE, NoReply, <<>>)

\* create_timer that falls back to CLOCK_REALTIME for an unknown clock kind
create_timer_default_clock(st, payload, succeed) ==
    IF ei_x_decode_atom(payload) = 0
    THEN LET clockid == IF payload.val = "clock_monotonic" THEN "CLOCK_MONOTONIC"
                        ELSE "CLOCK_REALTIME"
             c == timerfd_create(st.kfd, clockid, succeed)
             st1 == [st EXCEPT !.fd = c.ret, !.kfd = c.k]
         IN  IF st1.fd < 0
             THEN Result(st1, FALSE, encode_error("timerfd_create failed"), <<>>)
             ELSE Result(driver_select(st1, st1.fd, 1), FALSE, OkReply,
                         <<SelectCall(st1.fd, 1)>>)
    ELSE Result(st, FALSE, NoReply, <<>>)

create_timer(st, payload, succeed) ==
    IF ei_x_decode_atom(payload) = 0
    THEN LET clockid == IF payload.val = "clock_monotonic" THEN "CLOCK_MONOTONIC"
                        ELSE IF payload.val = "clock_realtime" THEN "CLOCK_REALTIME"
                        ELSE "unset"
         IN  IF clockid # "unset"
             THEN LET c == timerfd_create(st.kfd, clockid, succeed)
                      st1 == [st EXCEPT !.fd = c.ret, !.kfd = c.k]
                  IN  IF st1.fd < 0
                      THEN Result(st1, FALSE, encode_error("timerfd_create failed"), <<>>)
                      ELSE Result(driver_select(st1, st1.fd, 1), FALSE, OkReply,
                                  <<SelectCall(st1.fd, 1)>>)
             ELSE Result(st, TRUE, NoReply, <<>>)
    ELSE Result(st, FALSE, NoReply, <<>>)

\* settime that takes it_interval from {C,D} and it_value from {A,B}
settime_swapped(st, payload) ==
    IF payload.type = "undecodable"
    THEN Result(st, TRUE, NoReply, <<>>)
    ELSE IF payload.type = "match"
         THEN LET r == timerfd_settime(st.kfd, st.fd, payload.abs = "true",
                                       [interval |-> payload.spec.value,
                                        value |-> payload.spec.interval])
              IN  IF r.ret = 0
                  THEN Result([st EXCEPT !.kfd = r.k], FALSE, OkSpecReply(r.old), <<>>)
                  ELSE Result(st, FALSE, NoReply, <<>>)
         ELSE Result(st, FALSE, NoReply, <<>>)

\* settime that registers the descriptor for read again after re-arming
settime_reselects(st, payload) ==
    IF payload.type = "undecodable"
    THEN Result(st, TRUE, NoReply, <<>>)
    ELSE IF payload.type = "match"
         THEN LET r == timerfd_settime(st.kfd, st.fd, payload.abs = "true", payload.spec)
              IN  IF r.ret = 0
                  THEN Result(driver_select([st EXCEPT !.kfd = r.k, !.ack_pending = FALSE],
                                            st.fd, 1),
                              FALSE, OkSpecReply(r.old), <<SelectCall(st.fd, 1)>>)
                  ELSE Result(st, FALSE, NoReply, <<>>)
         ELSE Result(st, FALSE, NoReply, <<>>)

settime(st, payload) ==
    IF payload.type = "undecodable"
    THEN Result(st, TRUE, NoReply, <<>>)
    ELSE IF payload.type = "match"
         THEN LET r == timerfd_settime(st.kfd, st.fd, payload.abs = "true", payload.spec)
              IN  IF r.ret = 0
                  THEN Result([st EXCEPT !.kfd = r.k], FALSE, OkSpecReply(r.old), <<>>)
                  ELSE Result(st, FALSE, NoReply, <<>>)
         ELSE Result(st, FALSE, NoReply, <<>>)

gettime(st) ==
    LET r == timerfd_gettime(st.kfd, st.fd)
    IN  IF r.ret = 0
        THEN Result(st, FALSE, OkSpecReply(r.cur), <<>>)
        ELSE Result(st, FALSE, NoReply, <<>>)

\* ack without the ack_pending test
ack_unconditional(st) ==
    Result(driver_select([st EXCEPT !.ack_pending = FALSE], st.fd, 1),
           FALSE, OkReply, <<SelectCall(st.fd, 1)>>)

ack(st) ==
    IF st.ack_pending
    THEN Result(driver_select([st EXCEPT !.ack_pending = FALSE], st.fd, 1),
                FALSE, OkReply, <<SelectCall(st.fd, 1)>>)
    ELSE Result(st, FALSE, encode_error("ack not pending"), <<>>)

control(st, command, payload, succeed) ==
    CASE command = CREATE -> create_timer(st, payload, succeed)
      [] command = SETTIME -> settime(st, payload)
      [] command = GETTIME -> gettime(st)
      [] command = ACK -> ack(st)
      [] OTHER -> Result(st, TRUE, NoReply, <<>>)

\* driver_output(port, buf, len) for each term of sent: the owner is sent
\* that many more timeout terms
driver_output(o, sent) ==
    o + Cardinality({i \in DOMAIN sent : sent[i].tag = "timeout"})

\* ready_input that closes the ack-gate after a failed read as well
ready_input_gates_error(st, event) ==
    IF event = st.fd
    THEN LET r == read(st.kfd, event)
         IN  [st |-> [driver_select([st EXCEPT !.kfd = r.k], st.fd, 0)
                         EXCEPT !.ack_pending = TRUE],
              sent |-> IF r.ret = 8 THEN <<TimeoutMsg(r.count)>>
                       ELSE <<ErrorMsg("incorrect read size")>>,
              calls |-> <<SelectCall(st.fd, 0)>>]
    ELSE [st |-> st, sent |-> <<>>, calls |-> <<>>]

\* ready_input: the state it leaves, the terms it sends, the calls it makes
ready_input(st, event) ==
    IF event = st.fd
    THEN LET r == read(st.kfd, event)
         IN  IF r.ret = 8
             THEN [st |-> [driver_select([st EXCEPT !.kfd = r.k], st.fd, 0)
                              EXCEPT !.ack_pending = TRUE],
                   sent |-> <<TimeoutMsg(r.count)>>,
                   calls |-> <<SelectCall(st.fd, 0)>>]
             ELSE [st |-> st, sent |-> <<ErrorMsg("incorrect read size")>>,
                   calls |-> <<>>]
    ELSE [st |-> st, sent |-> <<>>, calls |-> <<>>]

\* stop: if(data->fd) is true of every descriptor value but 0
stop(st) ==
    IF st.fd # 0
    THEN [st |-> [driver_select(st, st.fd, 0) EXCEPT !.kfd = close(st.kfd, st.fd)],
          calls |-> <<SelectCall(st.fd, 0), CloseCall(st.fd)>>]
    ELSE [st |-> st, calls |-> <<>>]

----------------------------------------------------------------------------
(* The state machine *)

State == [fd |-> fd, ack_pending |-> ack_pending, selected |-> selected, kfd |-> kfd]

\* what a step did: the callback and its argument, whether control returned
\* -1, its reply, the emulator calls made and the terms sent to the owner
Step(op, arg, isFatal, reply, calls, sent) ==
    [op |-> op, arg |-> arg, fatal |-> isFatal, reply |-> reply, calls |-> calls,
     sent |-> sent]

\* start: the state a freshly opened port is in
Init ==
    /\ fd = NoFd
    /\ ack_pending = FALSE
    /\ alive = TRUE
    /\ selected = {}
    /\ kfd = [f \in Fds |-> ClosedTimer]
    /\ out = 0
    /\ last = Step("start", NoPayload, FALSE, NoReply, <<>>, <<>>)
    /\ expired = U64(0)

\* port_control(Port, 0, Payload)
Create ==
    /\ alive
    /\ \E p \in CreatePayloads, succeed \in BOOLEAN :
          LET r == control(State, CREATE, p, succeed)
          IN  /\ fd' = r.st.fd
              /\ ack_pending' = r.st.ack_pending
              /\ selected' = r.st.selected
              /\ kfd' = r.st.kfd
              /\ last' = Step("create", p, r.fatal, r.reply, r.calls, <<>>)
    /\ UNCHANGED <<alive, out, expired>>

\* port_control(Port, 1, Payload)
SetTime ==
    /\ alive
    /\ \E p \in SetTimePayloads :
          LET r == control(State, SETTIME, p, TRUE)
          IN  /\ fd' = r.st.fd
              /\ ack_pending' = r.st.ack_pending
              /\ selected' = r.st.selected
              /\ kfd' = r.st.kfd
              /\ last' = Step("settime", p, r.fatal, r.reply, r.calls, <<>>)
    /\ UNCHANGED <<alive, out, expired>>

\* port_control(Port, 2, <<>>)
GetTime ==
    /\ alive
    /\ LET r == control(State, GETTIME, NoPayload, TRUE)
       IN  /\ fd' = r.st.fd
           /\ ack_pending' = r.st.ack_pending
           /\ selected' = r.st.selected
           /\ kfd' = r.st.kfd
           /\ last' = Step("gettime", NoPayload, r.fatal, r.reply, r.calls, <<>>)
    /\ UNCHANGED <<alive, out, expired>>

\* port_control(Port, 3, <<>>)
Ack ==
    /\ alive
    /\ LET r == control(State, ACK, NoPayload, TRUE)
       IN  /\ fd' = r.st.fd
           /\ ack_pending' = r.st.ack_pending
           /\ selected' = r.st.selected
           /\ kfd' = r.st.kfd
           /\ last' = Step("ack", NoPayload, r.fatal, r.reply, r.calls, <<>>)
    /\ UNCHANGED <<alive, out, expired>>

\* port_control with a command code control's switch does not know
Unknown ==
    /\ alive
    /\ LET r == control(State, ACK + 1, NoPayload, TRUE)
       IN  /\ fd' = r.st.fd
           /\ ack_pending' = r.st.ack_pending
           /\ selected' = r.st.selected
           /\ kfd' = r.st.kfd
           /\ last' = Step("unknown", NoPayload, r.fatal, r.reply, r.calls, <<>>)
    /\ UNCHANGED <<alive, out, expired>>

\* the emulator reports a selected descriptor readable: ready_input runs
ReadyInput ==
    /\ alive
    /\ out < MaxOut
    /\ \E event \in selected :
          LET r == ready_input(State, event)
          IN  /\ fd' = r.st.fd
              /\ ack_pending' = r.st.ack_pending
              /\ selected' = r.st.selected
              /\ kfd' = r.st.kfd
              /\ out' = driver_output(out, r.sent)
              /\ last' = Step("ready_input", Event(event), FALSE, NoReply, r.calls, r.sent)
    /\ UNCHANGED <<alive, expired>>

\* the port is closed: stop runs and frees the port data
Stop ==
    /\ alive
    /\ LET r == stop(State)
       IN  /\ selected' = r.st.selected
           /\ kfd' = r.st.kfd
           /\ last' = Step("stop", NoPayload, FALSE, NoReply, r.calls, <<>>)
    /\ alive' = FALSE
    /\ UNCHANGED <<fd, ack_pending, out, expired>>

\* control cannot allocate its reply buffer: driver_failure_atom closes the
\* port, which runs stop; control returns 0 and no reply
ControlNoMemory ==
    /\ alive
    /\ LET r == stop(State)
       IN  /\ selected' = r.st.selected
           /\ kfd' = r.st.kfd
           /\ last' = Step("control_no_memory", NoPayload, FALSE, NoReply, r.calls, <<>>)
    /\ alive' = FALSE
    /\ UNCHANGED <<fd, ack_pending, out, expired>>

\* numbers of whole periods that may have passed when an armed periodic timer
\* is next looked at: one, or 2^31 of them (2.1 s of a 1 ns period)
Bursts == { U64(1), <<1, 0>> }

Weight(n) == n[1] + n[2]

\* the kernel: the armed timer of descriptor f expires, n times over if periodic
Expire ==
    /\ alive
    /\ \E f \in OpenFds(kfd) :
          /\ kfd[f].value # ZeroT
          /\ \E n \in (IF kfd[f].interval = ZeroT THEN {U64(1)} ELSE Bursts) :
                /\ Weight(expired) + Weight(n) <= MaxExp
                /\ kfd' = [kfd EXCEPT ![f] =
                              [@ EXCEPT !.ticks = AddU64(@, n),
                                        !.value = kfd[f].interval]]
                /\ expired' = AddU64(expired, n)
    /\ last' = Step("expire", NoPayload, FALSE, NoReply, <<>>, <<>>)
    /\ UNCHANGED <<fd, ack_pending, alive, selected, out>>

Next ==
    \/ Create
    \/ SetTime
    \/ GetTime
    \/ Ack
    \/ Unknown
    \/ ReadyInput
    \/ Stop
    \/ ControlNoMemory
    \/ Expire

Spec == Init /\ [][Next]_vars

----------------------------------------------------------------------------
(* Vocabulary of the properties *)

\* the handle holds a valid descriptor
HoldsDescriptor == fd \in OpenFds(kfd)

\* ARMED: readiness interest registered on the handle's descriptor, no
\* notification outstanding
Armed == HoldsDescriptor /\ fd \in selected /\ ~ack_pending

\* the step sent a {timeout, Count} term to the owner
SentTimeout(step) == \E i \in DOMAIN step.sent : step.sent[i].tag = "timeout"

\* the clock kinds create_timer recognises
ValidClock(p) == p.type = "atom" /\ p.val \in {"clock_monotonic", "clock_realtime"}

----------------------------------------------------------------------------
(* C1: Backpressure.  While ack_pending is true (a timeout notification is  *)
(* outstanding) no step sends a second timeout notification: only an        *)
(* accepted Ack, which clears ack_pending, allows the next one.             *)
C1_Backpressure == [][ack_pending => ~SentTimeout(last')]_vars

(* C2: Ack accepted.  An Ack dispatched while ack_pending is true clears    *)
(* ack_pending, asks the emulator for read-readiness on the handle's        *)
(* descriptor, replies ok, and leaves the handle ARMED.                     *)
C2_AckAccepted ==
    [][(last'.op = "ack" /\ ack_pending) =>
          /\ ~ack_pending'
          /\ last'.reply = OkReply /\ ~last'.fatal
          /\ last'.calls = <<SelectCall(fd, 1)>>
          /\ fd' = fd
          /\ Armed']_vars

(* C3: Ack rejected.  An Ack dispatched while ack_pending is false replies  *)
(* {error, "ack not pending"}, is not fatal, and leaves the descriptor,     *)
(* ack_pending and the readiness registration as they were.                 *)
C3_AckRejected ==
    [][(last'.op = "ack" /\ ~ack_pending) =>
          /\ last'.reply = encode_error("ack not pending")
          /\ ~last'.fatal
          /\ last'.calls = <<>>
          /\ fd' = fd /\ ack_pending' = ack_pending /\ selected' = selected
          /\ kfd' = kfd]_vars

\* a second Ack, after a notification was sent and acknowledged, was rejected
C3_Witness ==
    /\ last.op = "ack"
    /\ last.reply = encode_error("ack not pending")
    /\ out > 0
    /\ Armed

(* C4: Exactly one reply per request.  Every well-formed SetTime and every  *)
(* GetTime request is answered by one reply term, {ok, TimerSpec} or        *)
(* {error, Reason}, in every handle state, also when the kernel call fails. *)
C4_OneReply ==
    (last.op = "gettime" \/ (last.op = "settime" /\ last.arg.type = "match"))
        => (~last.fatal /\ last.reply.kind \in {"ok_spec", "error"})

(* C5: Create syscall failure is recoverable.  When Create with a valid     *)
(* clock kind gets no descriptor from the kernel, the reply is              *)
(* {error, "timerfd_create failed"}, nothing is registered with the         *)
(* emulator, the handle holds no descriptor, and a retried Create that the  *)
(* kernel grants succeeds and brings the handle to ARMED.                   *)
RetryArms(st) ==
    (Fds \ OpenFds(st.kfd) # {}) =>
        LET r == control(st, CREATE, [type |-> "atom", val |-> "clock_monotonic"], TRUE)
            a == IF r.st.ack_pending THEN control(r.st, ACK, NoPayload, TRUE).st
                 ELSE r.st
        IN  /\ r.reply = OkReply /\ ~r.fatal
            /\ r.st.fd \in OpenFds(r.st.kfd) /\ r.st.fd \in r.st.selected
            /\ a.fd \in OpenFds(a.kfd) /\ a.fd \in a.selected /\ ~a.ack_pending

C6_BadClock ==
    [][(last'.op = "create" /\ last'.arg.type = "atom" /\ ~ValidClock(last'.arg)) =>
          /\ last'.fatal
          /\ last'.reply = NoReply
          /\ last'.calls = <<>>
          /\ kfd' = kfd /\ selected' = selected
          /\ fd' = fd /\ ack_pending' = ack_pending]_vars

\* Create(notaclockid) was dispatched on a handle that holds a descriptor
C6_Witness ==
    /\ last.op = "create"
    /\ last.arg = [type |-> "atom", val |-> "notaclockid"]
    /\ last.fatal
    /\ HoldsDescriptor

(* C7: a Create whose payload is not an atom (a string, say) is fatal:      *)
(* control returns -1, not an ok, error or empty reply.                     *)
C7_UndecodableCreate ==
    (last.op = "create" /\ last.arg.type = "string") => last.fatal

(* C8: close acts on the descriptor exactly when one is held.  With a valid *)
(* descriptor stop deregisters and releases it; with none (never created,   *)
(* or Create failed) stop calls neither driver_select nor close.            *)
C8_CloseWhenHeld ==
    [][last'.op = "stop" =>
          IF HoldsDescriptor
          THEN /\ last'.calls = <<SelectCall(fd, 0), CloseCall(fd)>>
               /\ fd \notin selected' /\ fd \notin OpenFds(kfd')
          ELSE last'.calls = <<>>]_vars

(* C9: Coalescing.  Each timeout notification carries the number of         *)
(* expirations the kernel accumulated on the handle's descriptor since the  *)
(* previous successful read (or since arming), and the read takes them all: *)
(* none is lost or counted twice.                                           *)
C9_Coalescing ==
    [][(last'.op = "ready_input" /\ SentTimeout(last')) =>
          /\ Len(last'.sent) = 1
          /\ U64(last'.sent[1].count) = kfd[fd].ticks
          /\ kfd'[fd].ticks = U64(0)]_vars

----------------------------------------------------------------------------
(* The one-shot scenario: Create(clock_monotonic) until a descriptor is     *)
(* granted, then SetTime with interval {0,0} and a non-zero initial value   *)
(* while the handle is ARMED and no expiration is unread; the owner may ask *)
(* GetTime and send Ack at any time.  Time passes, the kernel lets an armed *)
(* timer expire and the emulator calls ready_input for a readable selected  *)
(* descriptor.                                                              *)

\* 500 ms, and the amount of time one Elapse step lets pass
HalfT == <<U64(0), 500000000>>

TimeLess(a, b) == LessU64(a[1], b[1]) \/ (a[1] = b[1] /\ a[2] < b[2])

TimeSub(a, b) ==
    IF a[2] >= b[2] THEN <<SubU64(a[1], b[1]), a[2] - b[2]>>
    ELSE <<SubU64(SubU64(a[1], b[1]), U64(1)), (a[2] + NsecPerSec) - b[2]>>

\* the kernel: 500 ms pass and the handle's timer has more than that left
Elapse ==
    /\ alive
    /\ HoldsDescriptor
    /\ TimeLess(HalfT, kfd[fd].value)
    /\ kfd' = [kfd EXCEPT ![fd].value = TimeSub(@, HalfT)]
    /\ last' = Step("elapse", NoPayload, FALSE, NoReply, <<>>, <<>>)
    /\ UNCHANGED <<fd, ack_pending, alive, selected, out, expired>>

OneShotPayloads ==
    { [type |-> "match", spec |-> [interval |-> ZeroT, value |-> v], abs |-> a] :
          v \in {NanoT, HalfT, OneT, <<U64(1), 500000000>>}, a \in {"true", "false"} }

OneShotCreate ==
    /\ fd = NoFd
    /\ Create
    /\ last'.arg = [type |-> "atom", val |-> "clock_monotonic"]

OneShotSetTime ==
    /\ alive
    /\ Armed /\ IsZeroU64(kfd[fd].ticks)
    /\ out < MaxOut /\ Weight(expired) < MaxExp
    /\ \E p \in OneShotPayloads :
          LET r == control(State, SETTIME, p, TRUE)
          IN  /\ fd' = r.st.fd
              /\ ack_pending' = r.st.ack_pending
              /\ selected' = r.st.selected
              /\ kfd' = r.st.kfd
              /\ last' = Step("settime", p, r.fatal, r.reply, r.calls, <<>>)
    /\ UNCHANGED <<alive, out, expired>>

NextOneShot ==
    \/ OneShotCreate
    \/ OneShotSetTime
    \/ GetTime
    \/ Ack
    \/ ReadyInput
    \/ Expire
    \/ Elapse

SpecOneShot ==
    Init /\ [][NextOneShot]_vars /\ WF_vars(Expire) /\ WF_vars(ReadyInput)

(* C10: One-shot scenario.  After Create(clock_monotonic) and a SetTime     *)
(* with interval {0,0} and a non-zero initial value, a timeout notification *)
(* is sent; every timeout notification carries the count 1; there is one    *)
(* notification per expiration at most, and none is sent while the previous *)
(* one awaits its Ack.                                                      *)
C10_OneShot ==
    /\ ((last.op = "settime" /\ last.reply.kind = "ok_spec") ~> SentTimeout(last))
    /\ [][SentTimeout(last') =>
             /\ last'.sent = <<[tag |-> "timeout", count |-> 1, msg |-> ""]>>
             /\ ~ack_pending
             /\ out' = out + 1]_vars
    /\ [](out <= expired[2] /\ expired[1] = 0)

\* the scenario's notification has been sent and awaits its Ack
C10_Witness ==
    /\ SentTimeout(last)
    /\ out = 1 /\ expired = U64(1)
    /\ ack_pending

----------------------------------------------------------------------------
(* The round trip of timer settings: Create(clock_monotonic) until a        *)
(* descriptor is granted, then relative SetTime requests and GetTime, while *)
(* time passes, timers expire and notifications are delivered and           *)
(* acknowledged.  ERL_INT_UVALUE hands settime an unsigned int, so tv_sec   *)
(* may be anything below 2^32.                                              *)

\* 2^31 seconds
BigT == <<<<1, 0>>, 0>>

RoundTripSpecs ==
    { [interval |-> ZeroT, value |-> ZeroT],
      [interval |-> OneT, value |-> OneT],
      [interval |-> ZeroT, value |-> HalfT],
      [interval |-> ZeroT, value |-> BigT] }

RoundTripPayloads ==
    { [type |-> "match", spec |-> s, abs |-> "false"] : s \in RoundTripSpecs }

RoundTripCreate ==
    /\ fd = NoFd
    /\ Create
    /\ last'.arg = [type |-> "atom", val |-> "clock_monotonic"]

RoundTripSetTime ==
    /\ alive
    /\ \E p \in RoundTripPayloads :
          LET r == control(State, SETTIME, p, TRUE)
          IN  /\ fd' = r.st.fd
              /\ ack_pending' = r.st.ack_pending
              /\ selected' = r.st.selected
              /\ kfd' = r.st.kfd
              /\ last' = Step("settime", p, r.fatal, r.reply, r.calls, <<>>)
    /\ UNCHANGED <<alive, out, expired>>

\* time passes on a timer that is due within two seconds
RoundTripElapse ==
    /\ HoldsDescriptor
    /\ TimeLess(kfd[fd].value, <<U64(2), 0>>)
    /\ Elapse

NextRoundTrip ==
    \/ RoundTripCreate
    \/ RoundTripSetTime
    \/ GetTime
    \/ Ack
    \/ ReadyInput
    \/ Expire
    \/ RoundTripElapse

SpecRoundTrip == Init /\ [][NextRoundTrip]_vars

\* the TimerSpec a reply {ok, {{A,B},{C,D}}} tells the owner
ReportedSpec(reply) ==
    [interval |-> <<U64(reply.spec[1][1]), reply.spec[1][2]>>,
     value |-> <<U64(reply.spec[2][1]), reply.spec[2][2]>>]

----------------------------------------------------------------------------
(* C12: Ack-gate invariant.  In every reachable state read interest is      *)
(* registered on the handle's descriptor exactly when ack_pending is false  *)
(* and the descriptor is valid.                                             *)
C12_AckGate == (fd \in selected) <=> (~ack_pending /\ HoldsDescriptor)

(* C13: Single descriptor ownership.  In every reachable state every timer  *)
(* descriptor that is open, and every descriptor registered for readiness,  *)
(* is the one the handle stores: none is left behind by a repeated Create.  *)
C13_SingleDescriptor ==
    /\ OpenFds(kfd) \subseteq {fd}
    /\ selected \subseteq {fd}

(* C14: Short or failed counter read.  When ready_input runs for the        *)
(* handle's descriptor and read does not return the 8-byte counter, one     *)
(* error notification "incorrect read size" is sent and descriptor,         *)
(* ack_pending, the registration and the kernel timers stay as they were:   *)
(* an ARMED handle stays ARMED and the event can be delivered again.        *)
C14_FailedRead ==
    [][(/\ last'.op = "ready_input" /\ last'.arg.fd = fd
        /\ read(kfd, fd).ret # 8) =>
          /\ last'.sent = <<ErrorMsg("incorrect read size")>>
          /\ last'.calls = <<>>
          /\ fd' = fd /\ ack_pending' = ack_pending
          /\ selected' = selected /\ kfd' = kfd
          /\ out' = out
          /\ (Armed => Armed')
          /\ last'.arg.fd \in selected']_vars

\* ready_input has just failed to read the counter of an ARMED handle
C14_Witness ==
    /\ last.op = "ready_input" /\ last.arg.fd = fd
    /\ last.sent = <<ErrorMsg("incorrect read size")>>
    /\ Armed

(* C15: Protocol errors are fatal.  A dispatch with a command code outside  *)
(* {CREATE, SETTIME, GETTIME, ACK}, and a SetTime whose payload is a term   *)
(* of another shape than {{{A,B},{C,D}},E}, make control return -1 and      *)
(* leave descriptor, ack_pending, the registration and the kernel timers    *)
(* as they were.                                                            *)
C15_ProtocolErrors ==
    [][(\/ last'.op = "unknown"
        \/ (last'.op = "settime" /\ last'.arg.type = "mismatch")) =>
          /\ last'.fatal
          /\ fd' = fd /\ ack_pending' = ack_pending
          /\ selected' = selected /\ kfd' = kfd]_vars

(* C16: CLOSED is terminal.  Once stop has run on a handle in ARMED or      *)
(* NOTIFIED no descriptor the handle registered is selected any more, and   *)
(* afterwards no ready_input runs and no timeout or error term is sent.     *)
C16_ClosedTerminal ==
    [][/\ (last'.op = "stop" /\ HoldsDescriptor) => selected' = {}
       /\ ~alive => (/\ last'.op # "ready_input" /\ last'.sent = <<>>
                     /\ out' = out /\ selected' = selected)]_vars

(* C18: ack_pending implies a valid descriptor.  In every reachable state   *)
(* of an open port in which a notification is outstanding the handle holds  *)
(* a valid descriptor, so an accepted Ack registers a real descriptor,      *)
(* never -1.                                                                *)
C18_PendingHasDescriptor ==
    /\ (alive /\ ack_pending) => HoldsDescriptor
    /\ (last.op = "ack" /\ last.reply = OkReply) =>
           (last.calls = <<SelectCall(fd, 1)>> /\ fd \in selected)

(* C19: SetTime and GetTime, whether they succeed, fail or are malformed,   *)
(* never change the descriptor, ack_pending or the registration and make no *)
(* emulator call; a handle with a notification outstanding becomes ARMED    *)
(* through an Ack only.                                                     *)
C19_TimeFrame ==
    [][/\ last'.op \in {"settime", "gettime"} =>
             /\ fd' = fd /\ ack_pending' = ack_pending /\ selected' = selected
             /\ last'.calls = <<>>
       /\ (ack_pending /\ Armed') => last'.op = "ack"]_vars

\* a SetTime has re-armed the timer while a notification is outstanding
C19_Witness ==
    /\ last.op = "settime" /\ last.reply.kind = "ok_spec"
    /\ ack_pending /\ HoldsDescriptor /\ fd \notin selected
    /\ kfd[fd].value # ZeroT

----------------------------------------------------------------------------
(* The periodic scenario: the owner dispatches Create(clock_monotonic),     *)
(* arms a disarmed timer with a period, asks GetTime and keeps sending Ack; *)
(* the port stays open.  The kernel keeps expiring armed timers and the     *)
(* emulator calls ready_input for every selected descriptor that stays      *)
(* readable.  The counters out and expired stop at their bounds.            *)

PeriodicPayload == [type |-> "match", spec |-> [interval |-> NanoT, value |-> NanoT],
                    abs |-> "false"]

PeriodicCreate ==
    /\ Create
    /\ last'.arg = [type |-> "atom", val |-> "clock_monotonic"]

PeriodicSetTime ==
    /\ alive
    /\ HoldsDescriptor /\ kfd[fd].value = ZeroT
    /\ LET r == control(State, SETTIME, PeriodicPayload, TRUE)
       IN  /\ fd' = r.st.fd
           /\ ack_pending' = r.st.ack_pending
           /\ selected' = r.st.selected
           /\ kfd' = r.st.kfd
           /\ last' = Step("settime", PeriodicPayload, r.fatal, r.reply, r.calls, <<>>)
    /\ UNCHANGED <<alive, out, expired>>

\* the emulator finds the selected descriptor f readable: ready_input runs
PeriodicReadyInput(f) ==
    /\ alive
    /\ f \in selected /\ f \in OpenFds(kfd) /\ ~IsZeroU64(kfd[f].ticks)
    /\ LET r == ready_input(State, f)
       IN  /\ fd' = r.st.fd
           /\ ack_pending' = r.st.ack_pending
           /\ selected' = r.st.selected
           /\ kfd' = r.st.kfd
           /\ out' = IF out < MaxOut THEN driver_output(out, r.sent) ELSE out
           /\ last' = Step("ready_input", Event(f), FALSE, NoReply, r.calls, r.sent)
    /\ UNCHANGED <<alive, expired>>

\* the kernel: an armed timer whose counter is below the bound expires once
PeriodicExpire ==
    /\ alive
    /\ \E f \in OpenFds(kfd) :
          /\ kfd[f].value # ZeroT
          /\ Weight(kfd[f].ticks) < MaxExp
          /\ kfd' = [kfd EXCEPT ![f] =
                        [@ EXCEPT !.ticks = AddU64(@, U64(1)),
                                  !.value = kfd[f].interval]]
    /\ expired' = IF Weight(expired) < MaxExp THEN AddU64(expired, U64(1)) ELSE expired
    /\ last' = Step("expire", NoPayload, FALSE, NoReply, <<>>, <<>>)
    /\ UNCHANGED <<fd, ack_pending, alive, selected, out>>

NextPeriodic ==
    \/ PeriodicCreate
    \/ PeriodicSetTime
    \/ GetTime
    \/ Ack
    \/ \E f \in Fds : PeriodicReadyInput(f)
    \/ PeriodicExpire

SpecPeriodic ==
    /\ Init /\ [][NextPeriodic]_vars
    /\ WF_vars(PeriodicExpire)
    /\ WF_vars(Ack)
    /\ \A f \in Fds : WF_vars(PeriodicReadyInput(f))

\* a periodic timer the handle armed is running
PeriodicRunning ==
    \E f \in OpenFds(kfd) : kfd[f].interval # ZeroT /\ kfd[f].value # ZeroT

(* C17: Ack re-enables notifications.  With a periodic timer running, an    *)
(* owner that acknowledges and fair delivery of readiness callbacks, every  *)
(* accepted Ack is followed by another timeout notification: the port is    *)
(* never left with a timer that keeps expiring and no notification to come. *)
C17_AckLiveness ==
    (last.op = "ack" /\ last.reply = OkReply) ~> (SentTimeout(last) \/ ~PeriodicRunning)

====
